---------------------------- MODULE Spec2Model ----------------------------
(***************************************************************************)
(* Model of the invoice intake service in src/main.py: the regular-        *)
(* expression invoice parser extract_invoice_data and the webhook handler  *)
(* whatsapp_webhook with its two gateways save_invoice and                 *)
(* send_confirmation.                                                      *)
(*                                                                         *)
(* A text is a sequence of atoms.  An atom is a string standing for one    *)
(* character (a digit, a separator, a letter, a blank) or for one whole    *)
(* word of the label vocabulary ("invoice", "total", "due", ...).  The     *)
(* regular expressions of the source are matched atom by atom with the     *)
(* leftmost, greedy semantics of re.search.                                *)
(***************************************************************************)
EXTENDS Integers, Sequences, FiniteSets, TLC

VARIABLES
    env,        \* lines 23-26: which configuration values are set
    pc,         \* per request: the statement the handler is at
    MediaUrl0,  \* per request: the form field ("" when missing or empty)
    From,       \* per request: the sender
    unique_filename,    \* per request: token of /tmp/invoice_<token>.file
    text,       \* per request: the flattened recognized text
    record,     \* per request: what extract_invoice_data returned
    resp,       \* per request: the response of the return statement taken
    calls,      \* per request: the external calls made, in order
    fetched,    \* per request: how requests.get went ("none" before)
    recognized, \* per request: how ocr went ("none" before)
    saveArgs,   \* per request: the arguments of each save_invoice call
    sendArgs,   \* per request: the arguments of each send_confirmation call
    dbResult,   \* per request: what save_invoice returned ("none" before)
    sendResult, \* per request: what send_confirmation returned
    staged,     \* per request: did the handler write its scratch file
    readFrom,   \* per request: whose bytes recognition read (0: none yet)
    cleanup,    \* per request: what the finally block did
    fs,         \* scratch directory: per file token the writer (0: no file)
    db,         \* rows committed to the invoices table
    outbox,     \* messages the messaging service accepted
    xText,      \* extractor run: the text handed to extract_invoice_data
    xIn,        \* extractor run: the uuid4 token and the clock it reads
    xOut,       \* extractor run: the record it returned (xDone says whether)
    xDone

xvars == <<xText, xIn, xOut, xDone>>

pvars == <<env, pc, MediaUrl0, From, unique_filename, text, record, resp,
           calls, fetched, recognized, saveArgs, sendArgs, dbResult, sendResult, staged, readFrom,
           cleanup, fs, db, outbox>>

vars == <<pvars, xvars>>

-----------------------------------------------------------------------------
(* Atoms and character classes                                             *)

Digit == {"0", "1", "2", "3", "4", "5", "6", "7", "8", "9"}

DigitVal ==
    [c \in Digit |->
        CASE c = "0" -> 0 [] c = "1" -> 1 [] c = "2" -> 2 [] c = "3" -> 3
          [] c = "4" -> 4 [] c = "5" -> 5 [] c = "6" -> 6 [] c = "7" -> 7
          [] c = "8" -> 8 [] c = "9" -> 9]

\* \s of the patterns
Space == {" ", "\n"}

\* the words of the label vocabulary, in lower case
Word ==
    {"invoice", "inv", "bill", "reference", "no", "number",
     "total", "amount", "grand", "balance", "due",
     "payment", "payable", "by", "on", "date"}

\* upper-case spellings of words and letters that occur in the texts
UpperOf == [a \in {"INVOICE", "TOTAL", "DUE"} |->
               CASE a = "INVOICE" -> "invoice" [] a = "TOTAL" -> "total"
                 [] a = "DUE" -> "due"]

Letter == {"A", "B", "x"}

\* re.IGNORECASE: an atom is compared after case folding
Fold(a) == IF a \in DOMAIN UpperOf THEN UpperOf[a] ELSE a

\* [A-Z0-9\-] under re.IGNORECASE: letters (and so whole words), digits, "-"
IdClass == Letter \cup Word \cup Digit \cup {"-"}

\* [$£€₹]
Currency == {"$"}

\* [0-9,]
NumClass == Digit \cup {","}

\* [\/\-\.]
DateSep == {"/", "-", "."}

-----------------------------------------------------------------------------
(* Matching primitives.  A position p in 1..Len(t)+1 is the index of the   *)
(* next atom to read.                                                      *)

RECURSIVE RunEnd(_, _, _)
\* S* read greedily from p: the position after the longest run of S atoms
RunEnd(t, p, S) ==
    IF p <= Len(t) /\ Fold(t[p]) \in S THEN RunEnd(t, p + 1, S) ELSE p

\* one atom whose folded form is in S
Lit(t, P, S) == {p + 1 : p \in {q \in P : q <= Len(t) /\ Fold(t[q]) \in S}}

\* S?
Opt(t, P, S) == P \cup Lit(t, P, S)

\* S* with backtracking: every position within the run
Star(t, P, S) == UNION {p .. RunEnd(t, p, S) : p \in P}

Min(S) == CHOOSE m \in S : \A n \in S : m <= n

Max(S) == CHOOSE m \in S : \A n \in S : m >= n

NoMatch == [ok |-> FALSE, cap |-> <<>>]

Captured(t, s, e) == [ok |-> TRUE, cap |-> SubSeq(t, s, e - 1)]


\* Python's None and a present value
None == [some |-> FALSE, v |-> <<>>]

Some(x) == [some |-> TRUE, v |-> x]

RECURSIVE Strip(_)
\* str.strip(): leading and trailing white space removed
Strip(s) ==
    IF s = <<>> THEN s
    ELSE IF Head(s) \in Space THEN Strip(Tail(s))
    ELSE IF s[Len(s)] \in Space THEN Strip(SubSeq(s, 1, Len(s) - 1))
    ELSE s

RECURSIVE Remove(_, _)
\* str.replace(c, ''): every occurrence of atom c removed
Remove(s, c) ==
    IF s = <<>> THEN s
    ELSE IF Head(s) = c THEN Remove(Tail(s), c)
    ELSE <<Head(s)>> \o Remove(Tail(s), c)

-----------------------------------------------------------------------------
(* Invoice number: src/main.py lines 51-65                                 *)

\* word \s* (?:no\.?|number|#) \s* :? \s* ([A-Z0-9\-]+)
invoice_patterns ==
    << [word |-> "invoice",   alts |-> {"no", "number", "#"}],
       [word |-> "inv",       alts |-> {"no", "#"}],
       [word |-> "bill",      alts |-> {"no", "number", "#"}],
       [word |-> "reference", alts |-> {"no", "number", "#"}] >>

\* the capture group, S being the positions where it can start
IdCapture(t, S) ==
    IF S = {} THEN NoMatch
    ELSE Captured(t, Max(S), RunEnd(t, Max(S), IdClass))

\* (?:no\.?|number|#) read from the positions P
IdAlternatives(pat, t, P) ==
    Opt(t, Lit(t, P, pat.alts \cap {"no"}), {"."})
        \cup Lit(t, P, pat.alts \ {"no"})

\* the pattern matched with its first atom at position i
IdMatchAt(pat, t, i) ==
    IdCapture(t,
        {s \in Star(t, Opt(t, Star(t, IdAlternatives(pat, t,
                                          Star(t, Lit(t, {i}, {pat.word}),
                                               Space)),
                                   Space),
                           {":"}),
                    Space) : s <= Len(t) /\ Fold(t[s]) \in IdClass})

\* the match at the least of the positions I where the pattern matches
IdLeftmost(pat, t, I) ==
    IF I = {} THEN NoMatch ELSE IdMatchAt(pat, t, Min(I))

\* re.search(pattern, text, re.IGNORECASE): the leftmost match
IdSearch(pat, t) ==
    IdLeftmost(pat, t, {i \in 1 .. Len(t) : IdMatchAt(pat, t, i).ok})

RECURSIVE IdLoop(_, _)
\* a loop without the break: a later pattern that matches overwrites the id
IdStepNoBreak(t, k, m) ==
    IF m.ok /\ ~IdLoop(t, k + 1).some THEN Some(Strip(m.cap))
    ELSE IdLoop(t, k + 1)

\* lines 61-65: on a match the token is taken and the loop left
IdStep(t, k, m) ==
    IF m.ok THEN Some(Strip(m.cap)) ELSE IdLoop(t, k + 1)

\* for pattern in invoice_patterns
IdLoop(t, k) ==
    IF k > Len(invoice_patterns) THEN None
    ELSE IdStep(t, k, IdSearch(invoice_patterns[k], t))

-----------------------------------------------------------------------------
(* Total amount: src/main.py lines 67-87                                   *)

\* lead words separated by \s*, an optional word, \s* :? \s* [$£€₹]? \s*
\* and the number; the fifth pattern is the currency symbol, the number,
\* \s* and one of the trailing words
amount_patterns ==
    << [lead |-> <<"total">>,          opt |-> {"amount"},       trail |-> {}],
       [lead |-> <<"amount">>,         opt |-> {"due", "total"}, trail |-> {}],
       [lead |-> <<"grand", "total">>, opt |-> {},               trail |-> {}],
       [lead |-> <<"balance">>,        opt |-> {"due"},          trail |-> {}],
       [lead |-> <<>>,                 opt |-> {},
        trail |-> {"total", "due", "balance"}] >>

RECURSIVE Lead(_, _, _)
\* the lead words of a pattern, \s* between them
Lead(t, P, ws) ==
    IF ws = <<>> THEN P
    ELSE IF Len(ws) = 1 THEN Lit(t, P, {ws[1]})
    ELSE Lead(t, Star(t, Lit(t, P, {ws[1]}), Space), Tail(ws))

\* \.?\d* after [0-9,]+, which ended at e
NumTail(t, s, e) ==
    IF e = s THEN s
    ELSE IF e <= Len(t) /\ t[e] = "." THEN RunEnd(t, e + 1, Digit)
    ELSE RunEnd(t, e, Digit)

\* ([0-9,]+\.?\d*) read greedily from s: the position after it (s if none)
NumEnd(t, s) == NumTail(t, s, RunEnd(t, s, NumClass))

\* the capture group, S being the positions where it can start
AmountCapture(t, S) ==
    IF S = {} THEN NoMatch ELSE Captured(t, Max(S), NumEnd(t, Max(S)))

\* \s*(?:total|due|balance) of the fifth pattern read from position e
Trailer(pat, t, e) == Lit(t, Star(t, {e}, Space), pat.trail) # {}

AmountMatchAt(pat, t, i) ==
    IF pat.trail = {}
    THEN AmountCapture(t,
            {s \in Star(t, Opt(t, Star(t, Opt(t, Star(t, Opt(t,
                        Star(t, Lead(t, {i}, pat.lead), Space),
                        pat.opt), Space), {":"}), Space), Currency), Space)
               : NumEnd(t, s) > s})
    ELSE AmountCapture(t,
            {s \in Star(t, Lit(t, {i}, Currency), Space)
               : NumEnd(t, s) > s /\ Trailer(pat, t, NumEnd(t, s))})

\* the match at the least of the positions I where the pattern matches
AmountLeftmost(pat, t, I) ==
    IF I = {} THEN NoMatch ELSE AmountMatchAt(pat, t, Min(I))

AmountSearch(pat, t) ==
    AmountLeftmost(pat, t, {i \in 1 .. Len(t) : AmountMatchAt(pat, t, i).ok})

RECURSIVE DigitsVal(_)
\* the number a string of digits denotes (0 for the empty string)
DigitsVal(ds) ==
    IF ds = <<>> THEN 0
    ELSE 10 * DigitsVal(SubSeq(ds, 1, Len(ds) - 1)) + DigitVal[ds[Len(ds)]]

RECURSIVE StripZeros(_)
\* trailing zeros of a fraction removed
StripZeros(ds) ==
    IF ds # <<>> /\ ds[Len(ds)] = "0"
    THEN StripZeros(SubSeq(ds, 1, Len(ds) - 1)) ELSE ds

\* a number as mantissa m and count e of decimals, m / 10^e, in lowest form
Number(m, e) == [m |-> m, e |-> e]

\* the value of the digits int before and frac after the decimal point
Decimal(int, frac) == Number(DigitsVal(int \o frac), Len(frac))

\* the string split at dot, where its first run of digits ends
FloatSplit(s, dot) ==
    IF /\ Len(s) > (IF dot <= Len(s) THEN 1 ELSE 0)
       /\ dot <= Len(s) => s[dot] = "."
       /\ \A k \in dot + 1 .. Len(s) : s[k] \in Digit
    THEN Some(Decimal(SubSeq(s, 1, dot - 1),
                      StripZeros(SubSeq(s, dot + 1, Len(s)))))
    ELSE None

\* float(s) for s over digits and ".": None stands for ValueError, raised
\* when s holds no digit
Float(s) == FloatSplit(s, RunEnd(s, 1, Digit))

RECURSIVE AmountLoop(_, _)
\* a loop that is left when the token does not parse
AmountParsedOrLeft(t, k, total_amount) == total_amount

\* lines 82-87: the token parsed (break) or not (continue)
AmountParsed(t, k, total_amount) ==
    IF total_amount.some THEN total_amount ELSE AmountLoop(t, k + 1)

\* lines 79-81: on a match the commas are removed
AmountStep(t, k, m) ==
    IF m.ok THEN AmountParsed(t, k, Float(Remove(m.cap, ",")))
    ELSE AmountLoop(t, k + 1)

\* for pattern in amount_patterns
AmountLoop(t, k) ==
    IF k > Len(amount_patterns) THEN None
    ELSE AmountStep(t, k, AmountSearch(amount_patterns[k], t))

-----------------------------------------------------------------------------
(* Due date: src/main.py lines 89-111                                      *)

\* lead words, an optional word, \s* :? \s* and the date token
date_patterns ==
    << [lead |-> <<"due">>,            opt |-> {"date", "by"}],
       [lead |-> <<"payment", "due">>, opt |-> {}],
       [lead |-> <<"payable", "by">>,  opt |-> {}],
       [lead |-> <<"due", "on">>,      opt |-> {}] >>

\* \d{lo,hi} at s, n digits standing there and the atom after the digits
\* taken not being a digit: the position after it (s if none)
DigitsTaken(s, n, lo, hi) ==
    IF n < lo THEN s ELSE IF n > hi THEN s + hi ELSE s + n

DigitsEnd(t, s, lo, hi) == DigitsTaken(s, RunEnd(t, s, Digit) - s, lo, hi)

\* \d{2,4} having ended at c, after the separator at b
DateEnd3(s, b, c) == IF c > b + 1 THEN c ELSE s

\* [\/\-\.]\d{2,4} after the second \d{1,2}, which ended at b
DateEnd2(t, s, a, b) ==
    IF b > a + 1 /\ b <= Len(t) /\ t[b] \in DateSep
    THEN DateEnd3(s, b, DigitsEnd(t, b + 1, 2, 4)) ELSE s

\* [\/\-\.]\d{1,2}... after the first \d{1,2}, which ended at a
DateEnd1(t, s, a) ==
    IF a > s /\ a <= Len(t) /\ t[a] \in DateSep
    THEN DateEnd2(t, s, a, DigitsEnd(t, a + 1, 1, 2)) ELSE s

\* (\d{1,2}[\/\-\.]\d{1,2}[\/\-\.]\d{2,4}) read from s: the position after
\* it (s if none)
DateEnd(t, s) == DateEnd1(t, s, DigitsEnd(t, s, 1, 2))

\* the capture group, S being the positions where it can start
DateCapture(t, S) ==
    IF S = {} THEN NoMatch ELSE Captured(t, Max(S), DateEnd(t, Max(S)))

DateMatchAt(pat, t, i) ==
    DateCapture(t,
        {s \in Star(t, Opt(t, Star(t, Opt(t, Star(t, Lead(t, {i}, pat.lead),
                                                  Space),
                                          pat.opt),
                                   Space),
                           {":"}),
                    Space) : DateEnd(t, s) > s})

\* the match at the least of the positions I where the pattern matches
DateLeftmost(pat, t, I) ==
    IF I = {} THEN NoMatch ELSE DateMatchAt(pat, t, Min(I))

DateSearch(pat, t) ==
    DateLeftmost(pat, t, {i \in 1 .. Len(t) : DateMatchAt(pat, t, i).ok})

\* the layouts in the order tried: %d/%m/%Y, %m/%d/%Y, %d-%m-%Y, ...
date_formats ==
    << [first |-> "d", sep |-> "/"], [first |-> "m", sep |-> "/"],
       [first |-> "d", sep |-> "-"], [first |-> "m", sep |-> "-"],
       [first |-> "d", sep |-> "."], [first |-> "m", sep |-> "."] >>

IsLeap(y) == (y % 4 = 0 /\ y % 100 # 0) \/ y % 400 = 0

DaysInMonth(y, m) ==
    IF m = 2 THEN (IF IsLeap(y) THEN 29 ELSE 28)
    ELSE IF m \in {4, 6, 9, 11} THEN 30 ELSE 31

\* what datetime.date accepts
ValidDate(d) ==
    /\ d.y \in 1 .. 9999
    /\ d.m \in 1 .. 12
    /\ d.d \in 1 .. DaysInMonth(d.y, d.m)

\* the date of the values %Y, %m and %d matched: %d matches 1..31 only and
\* %m 1..12 only, and the date must exist
MakeDate(y, m, d) ==
    IF d \in 1 .. 31 /\ m \in 1 .. 12 /\ ValidDate([y |-> y, m |-> m, d |-> d])
    THEN Some([y |-> y, m |-> m, d |-> d]) ELSE None

\* the three fields of the token: one or two digits each for %d and %m,
\* exactly four for %Y
StrptimeFields(fmt, f1, f2, f3) ==
    IF /\ Len(f1) \in 1 .. 2 /\ Len(f2) \in 1 .. 2
       /\ Len(f3) = 4 /\ \A k \in 1 .. 4 : f3[k] \in Digit
    THEN MakeDate(DigitsVal(f3),
                  DigitsVal(IF fmt.first = "d" THEN f2 ELSE f1),
                  DigitsVal(IF fmt.first = "d" THEN f1 ELSE f2))
    ELSE None

\* the token split at a and b, where its first two runs of digits end: the
\* separators must be the layout's
StrptimeSplit(date_str, fmt, a, b) ==
    IF /\ a <= Len(date_str) /\ date_str[a] = fmt.sep
       /\ b <= Len(date_str) /\ date_str[b] = fmt.sep
    THEN StrptimeFields(fmt, SubSeq(date_str, 1, a - 1),
                        SubSeq(date_str, a + 1, b - 1),
                        SubSeq(date_str, b + 1, Len(date_str)))
    ELSE None

StrptimeFrom(date_str, fmt, a) ==
    StrptimeSplit(date_str, fmt, a, RunEnd(date_str, a + 1, Digit))

\* datetime.strptime(date_str, fmt).date(): None stands for ValueError
Strptime(date_str, fmt) ==
    StrptimeFrom(date_str, fmt, RunEnd(date_str, 1, Digit))

RECURSIVE FormatLoop(_, _)
\* a layout loop without the break: the last layout that parses wins
FormatStepNoBreak(date_str, k, parsed) ==
    IF parsed.some /\ ~FormatLoop(date_str, k + 1).some THEN parsed
    ELSE FormatLoop(date_str, k + 1)

\* line 104-109: the layout parsed (break) or not (continue)
FormatStep(date_str, k, parsed) ==
    IF parsed.some THEN parsed ELSE FormatLoop(date_str, k + 1)

\* for fmt in [...]: the first layout that parses date_str
FormatLoop(date_str, k) ==
    IF k > Len(date_formats) THEN None
    ELSE FormatStep(date_str, k, Strptime(date_str, date_formats[k]))

RECURSIVE DateLoop(_, _)
\* lines 100-111: on a match the layouts are tried; break when due_date
\* is set
DateParsed(t, k, due_date) ==
    IF due_date.some THEN due_date ELSE DateLoop(t, k + 1)

DateStep(t, k, m) ==
    IF m.ok THEN DateParsed(t, k, FormatLoop(m.cap, 1))
    ELSE DateLoop(t, k + 1)

\* for pattern in date_patterns
DateLoop(t, k) ==
    IF k > Len(date_patterns) THEN None
    ELSE DateStep(t, k, DateSearch(date_patterns[k], t))

-----------------------------------------------------------------------------
(* extract_invoice_data: src/main.py lines 31-126                          *)

\* "INV-" and the eight upper-case hex digits of a uuid4, one atom each
SynthId(u) == <<"INV-", u>>

\* Python's truth value of an optional string
Truthy(o) == o.some /\ o.v # <<>>

\* an extractor without the defaults for the amount and the due date
FallbacksIdOnly(invoice_id, total_amount, due_date, u, today) ==
    [invoice_id   |-> IF ~Truthy(invoice_id) THEN Some(SynthId(u))
                      ELSE invoice_id,
     total_amount |-> total_amount,
     due_date     |-> due_date,
     synth        |-> ~Truthy(invoice_id)]

\* lines 113-126: the fallback values and the tuple returned; synth
\* records that line 115 ran
Fallbacks(invoice_id, total_amount, due_date, u, today) ==
    [invoice_id   |-> IF ~Truthy(invoice_id) THEN Some(SynthId(u))
                      ELSE invoice_id,
     total_amount |-> IF ~total_amount.some THEN Some(Number(0, 0))
                      ELSE total_amount,
     due_date     |-> IF ~due_date.some THEN Some(today) ELSE due_date,
     synth        |-> ~Truthy(invoice_id)]

extract_invoice_data(t, u, today) ==
    Fallbacks(IdLoop(t, 1), AmountLoop(t, 1), DateLoop(t, 1), u, today)

-----------------------------------------------------------------------------
(* Texts.  The recognition engine returns text fragments; line 260 joins   *)
(* the non-empty ones with one blank.                                      *)

RECURSIVE Flatten(_)
\* " ".join([line[1][0] for line in result[0] if line[1][0]])
Flatten(lines) ==
    IF lines = <<>> THEN <<>>
    ELSE LET rest == Flatten(Tail(lines))
         IN  IF Head(lines) = <<>> THEN rest
             ELSE IF rest = <<>> THEN Head(lines)
             ELSE Head(lines) \o <<" ">> \o rest

\* fragments that carry an invoice number label
IdFragments ==
    { <<"INVOICE", " ", "no", ".", ":", " ", "A", "7">>,
      <<"invoice", "#", "B", "-", "9">>,
      <<"inv", " ", "no", " ", "x", "1">>,
      <<"bill", " ", "number", ":", "5">>,
      <<"reference", "#", "7", "7">>,
      <<"invoice", " ", "number", ":">> }

\* fragments that carry an amount
AmountFragments ==
    { <<"TOTAL", ":", " ", "$", "1", ",", "2", "3", "4", ".", "5", "0">>,
      <<"total", " ", "amount", ":", " ", ",">>,
      <<"amount", " ", "due", ":", " ", "0">>,
      <<"grand", " ", "total", " ", "7">>,
      <<"balance", " ", "due", " ", "$", "9", ".">>,
      <<"$", "2", "5", "0", ".", "0", "0">> }

\* fragments that carry a date
DateFragments ==
    { <<"due", " ", "date", ":", " ", "1", "5", "/", "0", "3", "/",
        "2", "0", "2", "4">>,
      <<"DUE", " ", "by", " ", "0", "1", "/", "0", "5", "/",
        "2", "0", "2", "5">>,
      <<"due", ":", "3", "1", "/", "0", "2", "/", "2", "0", "2", "4">>,
      <<"payment", " ", "due", " ", "1", "2", "-", "2", "5", "-",
        "2", "0", "2", "4">>,
      <<"payable", " ", "by", " ", "2", "9", ".", "0", "2", ".",
        "2", "0", "2", "3">>,
      <<"due", " ", "on", " ", "1", "/", "2", "/", "2", "4">> }

Fragments == IdFragments \cup AmountFragments \cup DateFragments \cup {<<>>}

\* the most fragments of a recognition result
MaxFrags == 2

Lines == UNION {[1 .. n -> Fragments] : n \in 0 .. MaxFrags}

\* the hex tokens uuid4 may return and the dates the clock may show
Uuids == {"1A2B3C4D", "0F9E8D7C"}

Todays == {[y |-> 2026, m |-> 11, d |-> 4], [y |-> 2024, m |-> 2, d |-> 29]}

-----------------------------------------------------------------------------
(* A run of the extractor on one text                                      *)

NoRecord ==
    [invoice_id |-> None, total_amount |-> None, due_date |-> None,
     synth |-> FALSE]

-----------------------------------------------------------------------------
(* The webhook: src/main.py lines 128-309                                  *)

\* the requests the service handles, possibly at the same time
NumReq == 2

Requests == 1 .. NumReq

\* the values uuid4().hex takes for scratch file names.  uuid4 returns a
\* value no earlier call returned (a collision of two 122-bit random values
\* is outside the model); each value is named after the request whose call
\* at line 221 produced it
Tokens == Requests

\* a scratch file name that is the same for every request
uuid4_hex_fixed(r) == 1

\* line 221: uuid.uuid4().hex
uuid4_hex(r) == r

\* MediaUrl0: missing (Form(None)), empty, or a URL
MediaInputs == {None, Some(""), Some("https://api.twilio.com/Media/ME1")}

\* the From field: the r-th request comes from the r-th sender
SenderOf(r) == <<"whatsapp:+1555000", r>>

NoSender == <<"", 0>>

\* Python's truth value of an optional string field
TruthyStr(o) == o.some /\ o.v # ""

DigitChar == [n \in 0 .. 9 |-> CHOOSE c \in Digit : DigitVal[c] = n]

\* a date written year, day, month
IsoFormatDayFirst(d) ==
    << DigitChar[(d.y \div 1000) % 10], DigitChar[(d.y \div 100) % 10],
       DigitChar[(d.y \div 10) % 10], DigitChar[d.y % 10], "-",
       DigitChar[d.d \div 10], DigitChar[d.d % 10], "-",
       DigitChar[d.m \div 10], DigitChar[d.m % 10] >>

\* str(due_date): YYYY-MM-DD
IsoFormat(d) ==
    << DigitChar[(d.y \div 1000) % 10], DigitChar[(d.y \div 100) % 10],
       DigitChar[(d.y \div 10) % 10], DigitChar[d.y % 10], "-",
       DigitChar[d.m \div 10], DigitChar[d.m % 10], "-",
       DigitChar[d.d \div 10], DigitChar[d.d % 10] >>

\* no response yet; a key a response does not carry is "" or None
NoResponse ==
    [status_code |-> 0, error |-> "", status |-> "", invoice_id |-> None,
     total_amount |-> None, due_date |-> None, message |-> ""]

\* JSONResponse({"error": msg}, status_code=code)
ErrorResponse(msg, code) ==
    [status_code |-> code, error |-> msg, status |-> "",
     invoice_id |-> None, total_amount |-> None, due_date |-> None,
     message |-> ""]

\* lines 282-288
SuccessResponse(rec) ==
    [status_code |-> 200, error |-> "", status |-> "success",
     invoice_id |-> rec.invoice_id, total_amount |-> rec.total_amount,
     due_date |-> Some(IsoFormat(rec.due_date.v)),
     message |-> "Invoice processed successfully"]

NoMedia == "No media found in the message."

ConfigError == "Server configuration error. Please contact support."

DownloadError ==
    "Failed to download the media file. Please check the file and try again."

NoTextError ==
    "Could not extract text from the image. Please ensure the image is clear and contains readable text."

SaveError ==
    "Failed to save invoice data to database. Please try again later."

UnexpectedError ==
    "An unexpected error occurred while processing your invoice. Please try again later."

\* a return statement that leaves the handler at once, no finally block
ReturnAtOnce(r, response) ==
    /\ resp' = [resp EXCEPT ![r] = response]
    /\ pc' = [pc EXCEPT ![r] = "done"]

\* a return statement inside the try block: the finally block runs next
Return(r, response) ==
    /\ resp' = [resp EXCEPT ![r] = response]
    /\ pc' = [pc EXCEPT ![r] = "finally"]

Goto(r, label) ==
    /\ pc' = [pc EXCEPT ![r] = label]
    /\ UNCHANGED resp

Call(r, op) == calls' = [calls EXCEPT ![r] = Append(@, op)]

\* a media check that tests for None only
MediaMissingNoneOnly(m) == ~m.some

\* line 216: if not MediaUrl0
MediaMissing(m) == ~TruthyStr(m)

\* lines 213-221: the media check and the scratch file name
Receive(r) ==
    /\ pc[r] = "idle"
    /\ From' = [From EXCEPT ![r] = SenderOf(r)]
    /\ \E m \in MediaInputs :
        /\ MediaUrl0' = [MediaUrl0 EXCEPT ![r] = m]
        /\ IF MediaMissing(m)
           THEN /\ resp' = [resp EXCEPT ![r] = ErrorResponse(NoMedia, 400)]
                /\ pc' = [pc EXCEPT ![r] = "done"]
                /\ UNCHANGED unique_filename
           ELSE /\ unique_filename' = [unique_filename EXCEPT
                                         ![r] = uuid4_hex(r)]
                /\ Goto(r, "creds")
    /\ UNCHANGED <<fetched, recognized, env, text, record, calls, saveArgs, sendArgs, dbResult,
                   sendResult, staged, readFrom, cleanup, fs, db, outbox>>

\* line 228
CredentialsMissing == ~env.TWILIO_ACCOUNT_SID \/ ~env.TWILIO_AUTH_TOKEN

\* lines 227-233
CheckCredentials(r) ==
    /\ pc[r] = "creds"
    /\ IF CredentialsMissing
       THEN Return(r, ErrorResponse(ConfigError, 500))
       ELSE Goto(r, "get")
    /\ UNCHANGED <<fetched, recognized, env, MediaUrl0, From, unique_filename, text, record, calls,
                   saveArgs, sendArgs, dbResult, sendResult, staged, readFrom,
                   cleanup, fs, db, outbox>>

\* requests.get and raise_for_status: the response, or a RequestException
GetOutcomes == {"ok", "Timeout", "HTTPError"}

\* a failed download that falls to the general except clause
DownloadFailedUnexpected(r) ==
    Return(r, ErrorResponse(UnexpectedError, 500))

\* a download whose error is not raised: the pipeline carries on
DownloadFailedIgnored(r) == Goto(r, "write")

\* a failed download that is tried a second time
DownloadFailedRetried(r) ==
    IF calls[r] = <<>> THEN Goto(r, "get")
    ELSE Return(r, ErrorResponse(DownloadError, 400))

\* lines 290-295, the except clause a failed download reaches
DownloadFailed(r) == Return(r, ErrorResponse(DownloadError, 400))

\* lines 235-240
Download(r) ==
    /\ pc[r] = "get"
    /\ Call(r, "fetch")
    /\ \E o \in GetOutcomes :
        /\ fetched' = [fetched EXCEPT ![r] = o]
        /\ IF o = "ok" THEN Goto(r, "write") ELSE DownloadFailed(r)
    /\ UNCHANGED <<recognized, env, MediaUrl0, From, unique_filename, text, record,
                   saveArgs, sendArgs, dbResult, sendResult, staged, readFrom,
                   cleanup, fs, db, outbox>>

\* an exception no except clause catches: the finally block runs and no
\* response is chosen
UnexpectedEscapes(r) == Goto(r, "finally")

\* lines 296-301, the except clause any other exception reaches
Unexpected(r) == Return(r, ErrorResponse(UnexpectedError, 500))

\* open(..., "wb") and f.write: open may fail (no file), write may fail
\* (the file exists)
WriteOutcomes == {"ok", "open_error", "write_error"}

\* lines 242-246
WriteFile(r) ==
    /\ pc[r] = "write"
    /\ \E o \in WriteOutcomes :
        /\ fs' = IF o = "open_error" THEN fs
                 ELSE [fs EXCEPT ![unique_filename[r]] = r]
        /\ staged' = [staged EXCEPT ![r] = (o # "open_error")]
        /\ IF o = "ok" THEN Goto(r, "ocr") ELSE Unexpected(r)
    /\ UNCHANGED <<fetched, recognized, env, MediaUrl0, From, unique_filename, text, record, calls,
                   saveArgs, sendArgs, dbResult, sendResult, readFrom,
                   cleanup, db, outbox>>

\* a recognition result: None, or a list of pages; a page is None or a list
\* of lines, of which only the text line[1][0] is kept
Result(isNone, pages) == [none |-> isNone, pages |-> pages]

Page(isNone, lines) == [none |-> isNone, lines |-> lines]

\* the line lists recognition returns in the webhook runs
PageLines ==
    { << <<>> >>,
      << <<>>, <<>> >>,
      << <<"invoice", "#", "B", "-", "9">>,
         <<"$", "2", "5", "0", ".", "0", "0">>,
         <<"DUE", " ", "by", " ", "0", "1", "/", "0", "5", "/",
           "2", "0", "2", "5">> >> }

OcrResults ==
    { Result(TRUE, <<>>), Result(FALSE, <<>>),
      Result(FALSE, <<Page(TRUE, <<>>)>>),
      Result(FALSE, <<Page(FALSE, <<>>)>>) }
    \cup {Result(FALSE, <<Page(FALSE, ls)>>) : ls \in PageLines}

\* line 252: not result or not result[0]
NoText(result) ==
    \/ result.none
    \/ result.pages = <<>>
    \/ result.pages[1].none
    \/ result.pages[1].lines = <<>>

\* the uuid4 tokens and the clock values extract_invoice_data may read
\* while a webhook runs
WebhookUuids == {"1A2B3C4D"}

WebhookTodays == {[y |-> 2026, m |-> 11, d |-> 4]}

\* lines 248-264: ocr raises, also when the file is gone, or returns; the
\* text is flattened and parsed
Recognize(r) ==
    /\ pc[r] = "ocr"
    /\ Call(r, "ocr")
    /\ readFrom' = [readFrom EXCEPT ![r] = fs[unique_filename[r]]]
    /\ \/ /\ recognized' = [recognized EXCEPT ![r] = "raised"]
          /\ Unexpected(r)
          /\ UNCHANGED <<text, record>>
       \/ /\ fs[unique_filename[r]] # 0
          /\ \E result \in OcrResults :
              IF NoText(result)
              THEN /\ recognized' = [recognized EXCEPT ![r] = "no_result"]
                   /\ Return(r, ErrorResponse(NoTextError, 400))
                   /\ UNCHANGED <<text, record>>
              ELSE /\ recognized' = [recognized EXCEPT ![r] = "lines"]
                   /\ text' = [text EXCEPT
                                 ![r] = Flatten(result.pages[1].lines)]
                   /\ \E u \in WebhookUuids, today \in WebhookTodays :
                        record' = [record EXCEPT
                           ![r] = extract_invoice_data(text'[r], u, today)]
                   /\ Goto(r, "save")
    /\ UNCHANGED <<fetched, env, MediaUrl0, From, unique_filename,
                   saveArgs, sendArgs, dbResult, sendResult, staged,
                   cleanup, fs, db, outbox>>

\* how the body of save_invoice may go: psycopg2.connect, cur.execute or
\* conn.commit raises, or the commit succeeds and cur.close/conn.close raises
SaveOutcomes == {"ok", "connect_error", "execute_error", "commit_error",
                 "close_error"}

\* psycopg2.connect(None) raises: no statement reaches the database
SaveOutcomesUnder(e) == IF e.DATABASE_URL THEN SaveOutcomes
                        ELSE {"connect_error"}

\* lines 128-163: True only when the try block ran to its end; the row is
\* committed once line 151 has returned
save_invoice(o) ==
    [db_success |-> (o = "ok"), committed |-> (o \in {"ok", "close_error"})]

\* a webhook that does not look at what save_invoice returned
SaveFailedIgnored(db_success) == FALSE

\* line 268: if not db_success
SaveFailed(db_success) == ~db_success

\* lines 266-273
Save(r) ==
    /\ pc[r] = "save"
    /\ Call(r, "insert")
    /\ saveArgs' = [saveArgs EXCEPT ![r] = Append(@,
            [invoice_number |-> record[r].invoice_id.v,
             total_amount |-> record[r].total_amount.v,
             due_date |-> record[r].due_date.v,
             sender_whatsapp |-> From[r]])]
    /\ \E o \in SaveOutcomesUnder(env) :
        LET res == save_invoice(o)
        IN  /\ dbResult' = [dbResult EXCEPT
                              ![r] = IF res.db_success THEN "True" ELSE "False"]
            /\ db' = IF res.committed
                     THEN db \cup {[invoice_number |-> record[r].invoice_id.v,
                                    total_amount |-> record[r].total_amount.v,
                                    due_date |-> record[r].due_date.v,
                                    sender_whatsapp |-> From[r],
                                    request |-> r]}
                     ELSE db
            /\ IF SaveFailed(res.db_success)
               THEN Return(r, ErrorResponse(SaveError, 500))
               ELSE Goto(r, "notify")
    /\ UNCHANGED <<fetched, recognized, env, MediaUrl0, From, unique_filename, text, record,
                   sendArgs, sendResult, staged, readFrom, cleanup, fs,
                   outbox>>

\* how the body of send_confirmation may go: the message is accepted, or
\* the client raises TwilioRestException or another exception
SendOutcomes == {"ok", "TwilioRestException", "Exception"}

\* lines 165-195
send_confirmation(o) == (o = "ok")

\* a webhook that answers 500 when the confirmation was not sent
AfterConfirmationStrict(r, confirmation_success) ==
    IF confirmation_success THEN Return(r, SuccessResponse(record[r]))
    ELSE Return(r, ErrorResponse(UnexpectedError, 500))

\* lines 277-288: the response after send_confirmation returned
AfterConfirmation(r, confirmation_success) ==
    Return(r, SuccessResponse(record[r]))

\* lines 275-288
Notify(r) ==
    /\ pc[r] = "notify"
    /\ Call(r, "notify")
    /\ sendArgs' = [sendArgs EXCEPT ![r] = Append(@,
            [to |-> From[r], invoice_number |-> record[r].invoice_id.v])]
    /\ \E o \in SendOutcomes :
        /\ sendResult' = [sendResult EXCEPT
              ![r] = IF send_confirmation(o) THEN "True" ELSE "False"]
        /\ outbox' = IF send_confirmation(o)
                     THEN outbox \cup {[to |-> From[r],
                                        invoice_number |->
                                            record[r].invoice_id.v,
                                        request |-> r]}
                     ELSE outbox
        /\ AfterConfirmation(r, send_confirmation(o))
    /\ UNCHANGED <<fetched, recognized, env, MediaUrl0, From, unique_filename, text, record,
                   saveArgs, dbResult, staged, readFrom, cleanup, fs, db>>

\* os.remove returns or raises
RemoveOutcomes == {"ok", "OSError"}

\* a finally block that removes nothing
RemovedNothing(files, name, o) == files

\* lines 305-306: the scratch directory after the finally block, the file
\* being there and os.remove going as o
Removed(files, name, o) ==
    IF o = "ok" THEN [files EXCEPT ![name] = 0] ELSE files

\* a finally block whose os.remove error replaces the response chosen
CleanupOverrides(r) ==
    /\ pc[r] = "finally"
    /\ IF fs[unique_filename[r]] # 0
       THEN \E o \in RemoveOutcomes :
            /\ fs' = Removed(fs, unique_filename[r], o)
            /\ cleanup' = [cleanup EXCEPT
                             ![r] = IF o = "ok" THEN "removed" ELSE "failed"]
            /\ resp' = IF o = "ok" THEN resp
                       ELSE [resp EXCEPT
                               ![r] = ErrorResponse(UnexpectedError, 500)]
       ELSE /\ cleanup' = [cleanup EXCEPT ![r] = "absent"]
            /\ UNCHANGED <<fs, resp>>
    /\ pc' = [pc EXCEPT ![r] = "done"]
    /\ UNCHANGED <<fetched, recognized, env, MediaUrl0, From, unique_filename,
                   text, record, calls, saveArgs, sendArgs, dbResult,
                   sendResult, staged, readFrom, db, outbox>>

\* lines 302-309, after which the response chosen is returned
Cleanup(r) ==
    /\ pc[r] = "finally"
    /\ IF fs[unique_filename[r]] # 0
       THEN \E o \in RemoveOutcomes :
            /\ fs' = Removed(fs, unique_filename[r], o)
            /\ cleanup' = [cleanup EXCEPT
                             ![r] = IF o = "ok" THEN "removed" ELSE "failed"]
       ELSE /\ cleanup' = [cleanup EXCEPT ![r] = "absent"]
            /\ UNCHANGED fs
    /\ pc' = [pc EXCEPT ![r] = "done"]
    /\ UNCHANGED <<fetched, recognized, env, MediaUrl0, From, unique_filename, text, record, resp,
                   calls, saveArgs, sendArgs, dbResult, sendResult, staged,
                   readFrom, db, outbox>>

\* os.getenv at import time: each value set or not
Environments ==
    [DATABASE_URL : BOOLEAN, TWILIO_ACCOUNT_SID : BOOLEAN,
     TWILIO_AUTH_TOKEN : BOOLEAN, TWILIO_PHONE_NUMBER : BOOLEAN]

XIdle ==
    /\ xText = <<>>
    /\ xIn = [u |-> "1A2B3C4D", today |-> [y |-> 2026, m |-> 11, d |-> 4]]
    /\ xOut = NoRecord
    /\ xDone = FALSE

\* no request has arrived
PInit ==
    /\ pc = [r \in Requests |-> "idle"]
    /\ MediaUrl0 = [r \in Requests |-> None]
    /\ From = [r \in Requests |-> NoSender]
    /\ unique_filename = [r \in Requests |-> 0]
    /\ text = [r \in Requests |-> <<>>]
    /\ record = [r \in Requests |-> NoRecord]
    /\ resp = [r \in Requests |-> NoResponse]
    /\ calls = [r \in Requests |-> <<>>]
    /\ fetched = [r \in Requests |-> "none"]
    /\ recognized = [r \in Requests |-> "none"]
    /\ saveArgs = [r \in Requests |-> <<>>]
    /\ sendArgs = [r \in Requests |-> <<>>]
    /\ dbResult = [r \in Requests |-> "none"]
    /\ sendResult = [r \in Requests |-> "none"]
    /\ staged = [r \in Requests |-> FALSE]
    /\ readFrom = [r \in Requests |-> 0]
    /\ cleanup = [r \in Requests |-> "none"]
    /\ fs = [n \in Tokens |-> 0]
    /\ db = {}
    /\ outbox = {}

Init ==
    /\ env \in Environments
    /\ PInit
    /\ XIdle

whatsapp_webhook(r) ==
    \/ Receive(r) /\ UNCHANGED xvars
    \/ CheckCredentials(r) /\ UNCHANGED xvars
    \/ Download(r) /\ UNCHANGED xvars
    \/ WriteFile(r) /\ UNCHANGED xvars
    \/ Recognize(r) /\ UNCHANGED xvars
    \/ Save(r) /\ UNCHANGED xvars
    \/ Notify(r) /\ UNCHANGED xvars
    \/ Cleanup(r) /\ UNCHANGED xvars

Next == \E r \in Requests : whatsapp_webhook(r)

Spec == Init /\ [][Next]_vars

-----------------------------------------------------------------------------
(* Properties of the webhook                                               *)

Has(r, op) == \E i \in DOMAIN calls[r] : calls[r][i] = op

\* the request got past the media check and has been answered
Answered(r) == pc[r] = "done" /\ unique_filename[r] # 0

\* C1: for every request that gets past the media check, however the
\* pipeline ends, the scratch file of the request does not exist once the
\* response is returned, provided os.remove did not fail
C1_ScratchFileRemoved ==
    \A r \in Requests :
        (Answered(r) /\ cleanup[r] # "failed")
            => fs[unique_filename[r]] = 0

\* a request that staged its file, ended in an error response and removed
\* the file
C1_Witness ==
    \E r \in Requests :
        /\ Answered(r)
        /\ staged[r]
        /\ cleanup[r] = "removed"
        /\ resp[r].status_code = 500

\* C2: when save_invoice reports failure the response is 500 and
\* send_confirmation is never called in that request; send_confirmation is
\* called only after save_invoice reported success
C2_NoNotificationWithoutPersistence ==
    \A r \in Requests :
        /\ dbResult[r] = "False"
            => /\ resp[r].status_code = 500
               /\ ~Has(r, "notify")
               /\ sendArgs[r] = <<>>
        /\ Has(r, "notify") => dbResult[r] = "True"

\* a request answered after save_invoice returned False
C2_Witness ==
    \E r \in Requests :
        /\ Answered(r)
        /\ dbResult[r] = "False"
        /\ saveArgs[r] # <<>>

\* C3: when save_invoice succeeded and send_confirmation failed, the
\* response still has status "success" and carries the invoice id, the
\* total amount and the due date of the extracted record
C3_NotificationFailureKeepsSuccess ==
    \A r \in Requests :
        (dbResult[r] = "True" /\ sendResult[r] = "False")
            => /\ resp[r].status_code = 200
               /\ resp[r].status = "success"
               /\ resp[r].invoice_id = record[r].invoice_id
               /\ resp[r].total_amount = record[r].total_amount
               /\ resp[r].due_date = Some(IsoFormat(record[r].due_date.v))

\* a request answered after the row was committed and the confirmation
\* was not sent
C3_Witness ==
    \E r \in Requests :
        /\ Answered(r)
        /\ dbResult[r] = "True"
        /\ sendResult[r] = "False"
        /\ \E row \in db : row.request = r
        /\ \A m \in outbox : m.request # r

\* C4: a request whose media reference is missing or empty is answered
\* with 400, makes no external call and creates no scratch file, whatever
\* the configuration is
C4_MissingMediaRejected ==
    \A r \in Requests :
        (pc[r] # "idle" /\ ~TruthyStr(MediaUrl0[r]))
            => /\ pc[r] = "done"
               /\ resp[r].status_code = 400
               /\ calls[r] = <<>>
               /\ saveArgs[r] = <<>> /\ sendArgs[r] = <<>>
               /\ unique_filename[r] = 0
               /\ ~staged[r]
               /\ \A n \in Tokens : fs[n] # r

\* a request with an empty media reference, answered while no credential
\* at all is configured
C4_Witness ==
    \E r \in Requests :
        /\ pc[r] = "done"
        /\ MediaUrl0[r] = Some("")
        /\ ~env.TWILIO_ACCOUNT_SID /\ ~env.TWILIO_AUTH_TOKEN
        /\ ~env.TWILIO_PHONE_NUMBER /\ ~env.DATABASE_URL

\* C5: when the download fails the response is 400, recognition,
\* persistence and notification are not attempted, and no scratch file is
\* left behind
C5_DownloadFailureRejected ==
    \A r \in Requests :
        fetched[r] \notin {"none", "ok"}
            => /\ resp[r].status_code = 400
               /\ calls[r] = <<"fetch">>
               /\ recognized[r] = "none"
               /\ saveArgs[r] = <<>> /\ sendArgs[r] = <<>>
               /\ ~staged[r]
               /\ fs[unique_filename[r]] = 0

\* a request answered after requests.get raised
C5_Witness ==
    \E r \in Requests :
        /\ Answered(r)
        /\ fetched[r] = "HTTPError"

\* recognition returned and the text is empty: no result, no page, no line,
\* or lines whose text fragments are all empty
EmptyRecognition(r) ==
    \/ recognized[r] = "no_result"
    \/ recognized[r] = "lines" /\ text[r] = <<>>

\* C6: when recognition returns empty text (no result, an empty result, or
\* lines whose fragments are all empty, so that the flattened text is
\* empty), the response is 400, nothing is persisted or notified, and the
\* scratch file is removed
C6_EmptyRecognitionRejected ==
    \A r \in Requests :
        (Answered(r) /\ EmptyRecognition(r))
            => /\ resp[r].status_code = 400
               /\ ~Has(r, "insert") /\ ~Has(r, "notify")
               /\ \A row \in db : row.request # r
               /\ \A m \in outbox : m.request # r
               /\ cleanup[r] # "failed" => fs[unique_filename[r]] = 0

\* any of the four configuration values is absent
ConfigurationIncomplete ==
    \/ ~env.TWILIO_ACCOUNT_SID
    \/ ~env.TWILIO_AUTH_TOKEN
    \/ ~env.TWILIO_PHONE_NUMBER
    \/ ~env.DATABASE_URL

\* C7: when the account SID, the auth token, the sender address or the
\* database URL is absent, a request that carries media is answered with
\* 500 before any external call is made
C7_IncompleteConfigurationAborts ==
    \A r \in Requests :
        (ConfigurationIncomplete /\ unique_filename[r] # 0)
            => /\ calls[r] = <<>>
               /\ pc[r] = "done" => resp[r].status_code = 500

\* C8: requests handled concurrently have pairwise distinct scratch file
\* names, and no run writes, reads or deletes the file of another run: a
\* file holds what the owner of its name wrote, stays until its owner has
\* recognized it, and recognition reads the bytes its own request wrote
C8_ScratchFilesIsolated ==
    /\ \A r1, r2 \in Requests :
        (r1 # r2 /\ unique_filename[r1] # 0 /\ unique_filename[r2] # 0)
            => unique_filename[r1] # unique_filename[r2]
    /\ \A n \in Tokens :
        fs[n] # 0 => unique_filename[fs[n]] = n
    /\ \A r \in Requests :
        /\ pc[r] = "ocr" => fs[unique_filename[r]] = r
        /\ Has(r, "ocr") => readFrom[r] = r

\* one request has removed its file while another, whose file was staged
\* before, has still to recognize it
C8_Witness ==
    \E r1, r2 \in Requests :
        /\ r1 # r2
        /\ Answered(r1) /\ cleanup[r1] = "removed"
        /\ pc[r2] = "ocr"

\* the external calls in the order of the pipeline
CallOrder == <<"fetch", "ocr", "insert", "notify">>

\* C11: within one request the calls are made only in the order fetch,
\* recognize, (extract,) persist, notify; recognition runs only on the
\* staged file of a download that succeeded, save_invoice is called only
\* after recognition returned a result with lines and the record was
\* extracted, send_confirmation only after save_invoice returned True
C11_StagesInOrder ==
    \A r \in Requests :
        /\ \E n \in 0 .. Len(CallOrder) : calls[r] = SubSeq(CallOrder, 1, n)
        /\ Has(r, "ocr")
            => fetched[r] = "ok" /\ staged[r] /\ readFrom[r] # 0
        /\ record[r] # NoRecord => recognized[r] = "lines"
        /\ Has(r, "insert")
            => /\ recognized[r] = "lines"
               /\ record[r] # NoRecord
               /\ saveArgs[r] # <<>>
        /\ Has(r, "notify") => dbResult[r] = "True"

\* a request answered after all four calls
C11_Witness ==
    \E r \in Requests :
        /\ Answered(r)
        /\ calls[r] = CallOrder
        /\ resp[r].status_code = 200

\* C12 as stated: every response, the one for a missing media reference
\* included, is returned only after the cleanup of the scratch file has
\* been attempted
C12_EveryResponseAfterCleanup ==
    \A r \in Requests :
        pc[r] = "done" => cleanup[r] # "none"

\* C12: every response of a request that got past the media check is
\* returned only after the finally block has run; the response for a
\* missing media reference is returned before the try statement, with no
\* cleanup attempted and no scratch file named
C12_ResponseAfterCleanupPastMediaCheck ==
    \A r \in Requests :
        /\ Answered(r) => cleanup[r] # "none"
        /\ (pc[r] = "done" /\ MediaMissing(MediaUrl0[r]))
            => /\ cleanup[r] = "none"
               /\ unique_filename[r] = 0
               /\ \A n \in Tokens : fs[n] # r

\* one request answered for missing media with no cleanup, another
\* answered after a failed download and a cleanup that found no file
C12_Witness ==
    \E r1, r2 \in Requests :
        /\ pc[r1] = "done" /\ MediaMissing(MediaUrl0[r1])
        /\ cleanup[r1] = "none"
        /\ Answered(r2) /\ resp[r2].status_code = 400
        /\ cleanup[r2] = "absent"

\* C13: when save_invoice reports failure for a request, which is then
\* answered with the 500 response, no row of that request has been
\* committed to the database
C13_FailureMeansNothingCommitted ==
    \A r \in Requests :
        dbResult[r] = "False" => \A row \in db : row.request # r

\* how often the request made the call
Times(r, op) == Cardinality({i \in DOMAIN calls[r] : calls[r][i] = op})

\* C14: within one request the media fetch, recognition, the insert and
\* the confirmation message are each attempted at most once, also after
\* the call failed
C14_EachCallAtMostOnce ==
    \A r \in Requests :
        /\ \A n \in DOMAIN CallOrder : Times(r, CallOrder[n]) <= 1
        /\ Len(saveArgs[r]) <= 1
        /\ Len(sendArgs[r]) <= 1
        /\ fetched[r] # "none" => Times(r, "fetch") = 1
        /\ recognized[r] # "none" => Times(r, "ocr") = 1
        /\ dbResult[r] # "none" => Times(r, "insert") = 1
        /\ sendResult[r] # "none" => Times(r, "notify") = 1

\* one request answered after its download failed and another after its
\* insert failed
C14_Witness ==
    \E r1, r2 \in Requests :
        /\ Answered(r1) /\ fetched[r1] = "Timeout"
        /\ Answered(r2) /\ dbResult[r2] = "False"
        /\ Times(r1, "fetch") = 1 /\ Times(r2, "insert") = 1

\* C17: when os.remove fails in the finally block the failure is only
\* logged: the handler returns, and the response it returns, status code
\* and payload, is the one chosen before the finally block ran
C17_CleanupFailureKeepsResponse ==
    [][\A r \in Requests :
         (pc[r] = "finally" /\ cleanup'[r] = "failed")
            => /\ pc'[r] = "done"
               /\ resp'[r] = resp[r]
               /\ resp'[r].status_code \in {200, 400, 500}]_vars

\* a request answered with the success response although its scratch file
\* could not be removed and is still there
C17_Witness ==
    \E r \in Requests :
        /\ Answered(r)
        /\ cleanup[r] = "failed"
        /\ fs[unique_filename[r]] = r
        /\ resp[r].status_code = 200
        /\ resp[r] = SuccessResponse(record[r])

\* open or write raised while the scratch file was written
WriteFailed(r) ==
    /\ fetched[r] = "ok"
    /\ pc[r] \in {"finally", "done"}
    /\ calls[r] = <<"fetch">>

\* the responses of a request past the media check
PipelineResponse(r) ==
    /\ resp[r].status_code \in {200, 400, 500}
    /\ resp[r].status_code = 200 <=> resp[r].status = "success"
    /\ resp[r].status_code # 200 <=> resp[r].error # ""

\* C18: an exception raised in the pipeline after the media check that is
\* no download error (recognition raising, writing the scratch file
\* failing) becomes the 500 response and the finally block still runs;
\* every request past the media check ends with one response, chosen once,
\* whose status is 200, 400 or 500
C18_ExceptionsBecomeServerErrors ==
    /\ [](\A r \in Requests :
            /\ (recognized[r] = "raised" \/ WriteFailed(r))
                => /\ resp[r] = ErrorResponse(UnexpectedError, 500)
                   /\ pc[r] = "done" => cleanup[r] # "none"
            /\ (unique_filename[r] # 0 /\ pc[r] \in {"finally", "done"})
                => PipelineResponse(r)
            /\ Answered(r) => cleanup[r] # "none")
    /\ [][\A r \in Requests :
            resp[r] # NoResponse => resp'[r] = resp[r]]_vars

\* one request answered after recognition raised and one after the
\* scratch file could not be written, both with their file removed or
\* never created
C18_Witness ==
    \E r1, r2 \in Requests :
        /\ Answered(r1) /\ recognized[r1] = "raised"
        /\ cleanup[r1] = "removed"
        /\ Answered(r2) /\ WriteFailed(r2)
        /\ cleanup[r2] \in {"removed", "absent"}

\* the ISO calendar date string s denotes the date d
IsoDenotes(s, d) ==
    /\ Len(s) = 10 /\ s[5] = "-" /\ s[8] = "-"
    /\ DigitsVal(SubSeq(s, 1, 4)) = d.y
    /\ DigitsVal(SubSeq(s, 6, 7)) = d.m
    /\ DigitsVal(SubSeq(s, 9, 10)) = d.d

\* C19: in a successful request the invoice id, the total amount and the
\* due date passed to save_invoice are those of the extracted record and
\* of the success payload, send_confirmation names the same invoice id,
\* and the sender persisted and notified is the From value of the request
C19_OneRecordInAllSinks ==
    \A r \in Requests :
        resp[r].status_code = 200
            => /\ Len(saveArgs[r]) = 1 /\ Len(sendArgs[r]) = 1
               /\ saveArgs[r][1].invoice_number = record[r].invoice_id.v
               /\ saveArgs[r][1].total_amount = record[r].total_amount.v
               /\ saveArgs[r][1].due_date = record[r].due_date.v
               /\ resp[r].invoice_id = Some(saveArgs[r][1].invoice_number)
               /\ resp[r].total_amount = Some(saveArgs[r][1].total_amount)
               /\ resp[r].due_date.some
               /\ IsoDenotes(resp[r].due_date.v, saveArgs[r][1].due_date)
               /\ sendArgs[r][1].invoice_number
                    = saveArgs[r][1].invoice_number
               /\ saveArgs[r][1].sender_whatsapp = SenderOf(r)
               /\ sendArgs[r][1].to = SenderOf(r)
               /\ \A row \in db :
                    row.request = r
                        => /\ row.invoice_number = resp[r].invoice_id.v
                           /\ row.total_amount = resp[r].total_amount.v
                           /\ IsoDenotes(resp[r].due_date.v, row.due_date)
                           /\ row.sender_whatsapp = SenderOf(r)
               /\ \A m \in outbox :
                    m.request = r
                        => /\ m.to = SenderOf(r)
                           /\ m.invoice_number = resp[r].invoice_id.v

\* a request answered with success whose row is committed, whose
\* confirmation was sent and whose id, amount and date were found in the
\* text
C19_Witness ==
    \E r \in Requests :
        /\ Answered(r)
        /\ resp[r].status_code = 200
        /\ sendResult[r] = "True"
        /\ ~record[r].synth
        /\ record[r].total_amount.v.m > 0
        /\ record[r].due_date.v.d # record[r].due_date.v.m
        /\ \E row \in db : row.request = r
        /\ \E m \in outbox : m.request = r

-----------------------------------------------------------------------------
(* A run of extract_invoice_data alone, on every text of the bounds        *)

\* what uuid4 and the clock return during a run: one token on each day
ExtractInputs ==
    {i \in [u : Uuids, today : Todays] :
        (i.u = "1A2B3C4D") <=> (i.today.y = 2026)}

XInit ==
    /\ xText \in {Flatten(ls) : ls \in Lines}
    /\ xIn \in ExtractInputs
    /\ xOut = NoRecord
    /\ xDone = FALSE

XExtract ==
    /\ ~xDone
    /\ xOut' = extract_invoice_data(xText, xIn.u, xIn.today)
    /\ xDone' = TRUE
    /\ UNCHANGED <<xText, xIn>>

XNext == XExtract /\ UNCHANGED pvars

\* the extractor called with no request in progress
ExtractInit ==
    /\ env = [DATABASE_URL |-> TRUE, TWILIO_ACCOUNT_SID |-> TRUE,
              TWILIO_AUTH_TOKEN |-> TRUE, TWILIO_PHONE_NUMBER |-> TRUE]
    /\ PInit
    /\ XInit

SpecExtract == ExtractInit /\ [][XNext]_vars

-----------------------------------------------------------------------------
(* Properties of extract_invoice_data                                      *)

\* the token each of the five amount patterns captures in the text, if it
\* matches
AmountTokens ==
    << AmountSearch(amount_patterns[1], xText),
       AmountSearch(amount_patterns[2], xText),
       AmountSearch(amount_patterns[3], xText),
       AmountSearch(amount_patterns[4], xText),
       AmountSearch(amount_patterns[5], xText) >>

\* the number a token denotes once its commas are removed, if any
AmountOf(m) == IF m.ok THEN Float(Remove(m.cap, ",")) ELSE None

AmountValues(tok) ==
    << AmountOf(tok[1]), AmountOf(tok[2]), AmountOf(tok[3]),
       AmountOf(tok[4]), AmountOf(tok[5]) >>

\* none of the values is a number
NoneParses(val) == \A k \in DOMAIN amount_patterns : ~val[k].some

\* no amount pattern matches a token float() accepts
NothingParseable == NoneParses(AmountValues(AmountTokens))

\* C9: for every text, the empty text and texts whose matches do not parse
\* included, the record returned has a non-empty invoice id, a total amount
\* that is a number not below zero (0.00 when no parseable amount matched)
\* and a due date that is a date of the calendar; no field is None
C9_ExtractorTotal ==
    xDone =>
        /\ xOut.invoice_id.some /\ xOut.invoice_id.v # <<>>
        /\ xOut.total_amount.some /\ xOut.total_amount.v.m >= 0
        /\ NothingParseable => xOut.total_amount.v = Number(0, 0)
        /\ xOut.due_date.some /\ ValidDate(xOut.due_date.v)

\* a text where an amount pattern and a date pattern match tokens that do
\* not parse and no id pattern matches: every field is a fallback value
C9_Witness ==
    /\ xDone
    /\ \E k \in DOMAIN amount_patterns :
           AmountSearch(amount_patterns[k], xText).ok
    /\ NothingParseable
    /\ \E k \in DOMAIN date_patterns : DateSearch(date_patterns[k], xText).ok
    /\ xOut.due_date.v = xIn.today
    /\ xOut.synth

\* the order of the label words the id patterns are tried in
IdOrder == <<"invoice", "inv", "bill", "reference">>

\* the id pattern of a label word
IdPattern(w) ==
    CHOOSE p \in {invoice_patterns[k] : k \in DOMAIN invoice_patterns} :
        p.word = w

\* the positions of the text where the pattern of the n-th label word
\* matches, and the token it captures at position i
IdMatches(n) ==
    {i \in 1 .. Len(xText) : IdMatchAt(IdPattern(IdOrder[n]), xText, i).ok}

IdToken(n, i) == IdMatchAt(IdPattern(IdOrder[n]), xText, i).cap

\* the label words, by their place in the order, whose pattern matches
\* somewhere in the text
IdMatching == {n \in DOMAIN IdOrder : IdMatches(n) # {}}

\* the label "Invoice No: X"
InvoiceNo == [word |-> "invoice", alts |-> {"no"}]

\* C10 as stated: the id is a token captured by the earliest pattern, in
\* the order invoice, inv, bill, reference, that matches anywhere in the
\* text; a text containing the label "Invoice No: X" yields the id X; the
\* id is synthesized only when no pattern matches
C10_InvoiceNoLabelYieldsItsToken ==
    xDone =>
        /\ IdMatching # {}
            => \E i \in IdMatches(Min(IdMatching)) :
                   xOut.invoice_id.v = IdToken(Min(IdMatching), i)
        /\ \A i \in 1 .. Len(xText) :
               IdMatchAt(InvoiceNo, xText, i).ok
                   => xOut.invoice_id.v = IdMatchAt(InvoiceNo, xText, i).cap
        /\ xOut.synth => IdMatching = {}

\* the leftmost position where the pattern of the n-th label word matches,
\* 0 when it matches nowhere
IdLeftmostAt(n) == IF IdMatches(n) = {} THEN 0 ELSE Min(IdMatches(n))

IdFirsts ==
    << IdLeftmostAt(1), IdLeftmostAt(2), IdLeftmostAt(3), IdLeftmostAt(4) >>

\* the id is the token at the leftmost match first[n] of the earliest
\* pattern n that matches, or the synthesized one
IdAsSearched(first, invoice_id, synth, u) ==
    /\ (\A n \in DOMAIN IdOrder : first[n] = 0)
        => synth /\ invoice_id = Some(SynthId(u))
    /\ \A n \in DOMAIN IdOrder :
        (first[n] # 0 /\ \A j \in 1 .. n - 1 : first[j] = 0)
            => /\ ~synth
               /\ invoice_id.v = IdToken(n, first[n])
               /\ (n = 1 /\ IdMatchAt(InvoiceNo, xText, first[n]).ok)
                    => invoice_id.v
                         = IdMatchAt(InvoiceNo, xText, first[n]).cap

\* C10: the id is the token captured at the leftmost match of the earliest
\* pattern, in the order invoice, inv, bill, reference, that matches
\* anywhere in the text, wherever later patterns match; the label
\* "Invoice No: X" yields X when it is that leftmost match; the id is
\* synthesized exactly when no pattern matches
C10_LeftmostMatchOfEarliestPattern ==
    xDone => IdAsSearched(IdFirsts, xOut.invoice_id, xOut.synth, xIn.u)

\* a text where a later pattern matches to the left of the "Invoice No"
\* label, whose token is returned
C10_Witness ==
    /\ xDone
    /\ IdMatches(1) # {}
    /\ IdMatchAt(InvoiceNo, xText, Min(IdMatches(1))).ok
    /\ \E n \in IdMatching : n > 1 /\ Min(IdMatches(n)) < Min(IdMatches(1))
    /\ xOut.invoice_id.v = IdToken(1, Min(IdMatches(1)))

\* the layouts in the order claimed: for each separator the day-first
\* reading before the month-first one
DueLayouts ==
    << [first |-> "d", sep |-> "/"], [first |-> "m", sep |-> "/"],
       [first |-> "d", sep |-> "-"], [first |-> "m", sep |-> "-"],
       [first |-> "d", sep |-> "."], [first |-> "m", sep |-> "."] >>

\* the token each of the four date patterns captures in the text, if it
\* matches
DueTokens ==
    << DateSearch(date_patterns[1], xText),
       DateSearch(date_patterns[2], xText),
       DateSearch(date_patterns[3], xText),
       DateSearch(date_patterns[4], xText) >>

\* a token read under each of the six layouts
DueReadingsOf(token) ==
    << Strptime(token, DueLayouts[1]), Strptime(token, DueLayouts[2]),
       Strptime(token, DueLayouts[3]), Strptime(token, DueLayouts[4]),
       Strptime(token, DueLayouts[5]), Strptime(token, DueLayouts[6]) >>

\* the tokens tok read under each layout
DueReadings(tok) ==
    << DueReadingsOf(tok[1].cap), DueReadingsOf(tok[2].cap),
       DueReadingsOf(tok[3].cap), DueReadingsOf(tok[4].cap) >>

\* some layout parses the token of the k-th pattern
DueParses(tok, rd, k) ==
    tok[k].ok /\ \E f \in DOMAIN DueLayouts : rd[k][f].some

\* no pattern before the k-th captures a token that parses
DueEarliest(tok, rd, k) == \A j \in 1 .. k - 1 : ~DueParses(tok, rd, j)

\* (k, f) is the first (pattern, layout) pair that parses
DueFirstPair(tok, rd, k, f) ==
    /\ tok[k].ok
    /\ rd[k][f].some
    /\ \A g \in 1 .. f - 1 : ~rd[k][g].some
    /\ DueEarliest(tok, rd, k)

\* the number the token starts with
LeadingNumber(token) ==
    DigitsVal(SubSeq(token, 1, RunEnd(token, 1, Digit) - 1))

\* the due date is that of the first pair of the tokens tok and their
\* readings rd, the day-first one where both readings parse, or today
DueAsSearched(tok, rd, due_date, today) ==
    /\ (\A k \in DOMAIN date_patterns : ~DueParses(tok, rd, k))
        => due_date = Some(today)
    /\ \A k \in DOMAIN date_patterns, f \in DOMAIN DueLayouts :
        DueFirstPair(tok, rd, k, f) => due_date = rd[k][f]
    /\ \A k \in DOMAIN date_patterns, f \in {1, 3, 5} :
        (/\ DueParses(tok, rd, k) /\ DueEarliest(tok, rd, k)
         /\ rd[k][f].some /\ rd[k][f + 1].some)
            => /\ due_date = rd[k][f]
               /\ due_date.v.d = LeadingNumber(tok[k].cap)

\* C15: the due date is the date of the first (pattern, layout) pair that
\* parses, patterns in list order and for each pattern the layouts in
\* order, day-first before month-first for each separator; a token both
\* readings accept is read day-first; a pattern whose token no layout
\* parses does not end the search; with no pair the due date is today
C15_FirstPatternLayoutPair ==
    xDone =>
        DueAsSearched(DueTokens, DueReadings(DueTokens), xOut.due_date,
                      xIn.today)

\* the first pattern that matches captures a token no layout parses and a
\* later pattern captures one that parses month-first only
DueSearchGoesOn(tok, rd) ==
    \E j, k \in DOMAIN date_patterns :
        /\ j < k
        /\ tok[j].ok /\ ~DueParses(tok, rd, j)
        /\ \E f \in {2, 4, 6} : DueFirstPair(tok, rd, k, f)

\* a text whose search goes on after a token that does not parse
C15_Witness ==
    /\ xDone
    /\ DueSearchGoesOn(DueTokens, DueReadings(DueTokens))
    /\ xOut.due_date.some
    /\ xOut.due_date.v # xIn.today

\* the amount is that of the first pattern whose token parses, or 0.00
AmountAsSearched(val, total_amount) ==
    /\ \A k \in DOMAIN amount_patterns :
        (val[k].some /\ \A j \in 1 .. k - 1 : ~val[j].some)
            => total_amount = val[k]
    /\ (\A k \in DOMAIN amount_patterns : ~val[k].some)
        => total_amount = Some(Number(0, 0))
    /\ (total_amount # Some(Number(0, 0)))
        => \E k \in DOMAIN amount_patterns : val[k].some

\* C16: the amount patterns are tried in order; a pattern whose token,
\* commas removed, is not a number does not end the search; the amount is
\* that of the first pattern whose token parses, an amount of 0 included,
\* and it is 0.00 when no pattern captures a number
C16_FirstParseableAmount ==
    xDone => AmountAsSearched(AmountValues(AmountTokens), xOut.total_amount)

\* a pattern matches a token that is no number and a later pattern
\* captures a number that is not 0
AmountSearchGoesOn(tok, val) ==
    \E j, k \in DOMAIN amount_patterns :
        /\ j < k
        /\ tok[j].ok /\ ~val[j].some
        /\ \A i \in 1 .. k - 1 : ~val[i].some
        /\ val[k].some /\ val[k].v.m > 0

\* a text whose search goes on after a token that is no number
C16_Witness ==
    /\ xDone
    /\ AmountSearchGoesOn(AmountTokens, AmountValues(AmountTokens))
    /\ xOut.total_amount.v.m > 0

=============================================================================
